---------------------------- MODULE Spec2Model ----------------------------
(***************************************************************************)
(* A model of the wordle solver: Correctness::compute, Guess::matches,     *)
(* the VecRem guesser and the Wordle::play game loop.                      *)
(*                                                                         *)
(* A word is a sequence of WordLen letters (one-character strings); a mask *)
(* is a sequence of WordLen values of the Correctness enum.                *)
(***************************************************************************)
EXTENDS Integers, Sequences, FiniteSets

\* Words are five letters long (the assert_eq!(.., 5) of compute and matches).
WordLen == 5

\* The game loop runs `for round in 1..=32`.
MaxRounds == 32

\* Number of letters the inputs of the pure functions are drawn from.
NumLetters == 2

\* Number of lines of the dictionary the games are played with.
DictSize == 8

Pos == 1..WordLen

\* enum Correctness { Correct, Misplaced, Wrong }
Correct == "Correct"
Misplaced == "Misplaced"
Wrong == "Wrong"

Correctness == <<Correct, Misplaced, Wrong>>

Min(S) == CHOOSE x \in S : \A y \in S : x <= y

\* 3^(WordLen - i): the weight of position i in the index of a pattern.
RECURSIVE Pow3(_)
Pow3(n) == IF n = 0 THEN 1 ELSE 3 * Pow3(n - 1)

\* Correctness::patterns(): the cartesian product of the three values over
\* the five positions, in iproduct! order (the first position varies slowest).
Patterns ==
  [k \in 1..Pow3(WordLen) |->
     [i \in Pos |-> Correctness[(((k - 1) \div Pow3(WordLen - i)) % 3) + 1]]]

PatternSet == {Patterns[k] : k \in DOMAIN Patterns}

---------------------------------------------------------------------------
(* Correctness::compute *)

\* The third loop of compute: for each guess position that is not Correct,
\* `any` finds the first answer position with the same letter that is not
\* used, marks it used, and the guess position becomes Misplaced.
RECURSIVE ComputeMisplaced(_, _, _, _, _)
ComputeMisplaced(answer, guess, i, c, used) ==
  IF i > WordLen THEN c
  ELSE IF c[i] = Correct THEN ComputeMisplaced(answer, guess, i + 1, c, used)
  ELSE LET free == {j \in Pos : answer[j] = guess[i] /\ ~used[j]}
       IN IF free = {}
          THEN ComputeMisplaced(answer, guess, i + 1, c, used)
          ELSE ComputeMisplaced(answer, guess, i + 1,
                                [c EXCEPT ![i] = Misplaced],
                                [used EXCEPT ![Min(free)] = TRUE])

\* compute without its second loop: no answer position starts out used.
Compute_NoUsed(answer, guess) ==
  LET c0 == [i \in Pos |-> IF answer[i] = guess[i] THEN Correct ELSE Wrong]
  IN ComputeMisplaced(answer, guess, 1, c0, [i \in Pos |-> FALSE])

\* The first loop marks the equal positions Correct, the second marks them
\* used, the third hands out the Misplaced marks.
Compute(answer, guess) ==
  LET c0 == [i \in Pos |-> IF answer[i] = guess[i] THEN Correct ELSE Wrong]
      used0 == [i \in Pos |-> c0[i] = Correct]
  IN ComputeMisplaced(answer, guess, 1, c0, used0)

---------------------------------------------------------------------------
(* Guess::matches *)

\* The closure without its `Misplaced if j == i` arm: a letter that was
\* yellow at the candidate's own position supports the candidate.
RECURSIVE ScanGuess_NoSamePosition(_, _, _, _, _, _, _)
ScanGuess_NoSamePosition(gword, mask, w, i, j, used, plausible) ==
  IF j > WordLen
  THEN [found |-> FALSE, used |-> used, plausible |-> plausible, panic |-> FALSE]
  ELSE IF gword[j] # w \/ used[j]
  THEN ScanGuess_NoSamePosition(gword, mask, w, i, j + 1, used, plausible)
  ELSE IF mask[j] = Correct
  THEN [found |-> FALSE, used |-> used, plausible |-> plausible, panic |-> TRUE]
  ELSE IF mask[j] = Misplaced
  THEN [found |-> TRUE, used |-> [used EXCEPT ![j] = TRUE],
        plausible |-> plausible, panic |-> FALSE]
  ELSE ScanGuess_NoSamePosition(gword, mask, w, i, j + 1, used, FALSE)

\* The closure given to `any` in the second loop of matches, for the letter
\* w at position i of the candidate, scanning the positions j of the prior
\* guess from the left.  `any` stops at the first j the closure accepts.
\* The result holds whether `any` returned true, the used array, the
\* plausible flag and whether unreachable!() was hit.
RECURSIVE ScanGuess(_, _, _, _, _, _, _)
ScanGuess(gword, mask, w, i, j, used, plausible) ==
  IF j > WordLen
  THEN [found |-> FALSE, used |-> used, plausible |-> plausible, panic |-> FALSE]
  ELSE IF gword[j] # w \/ used[j]
  THEN ScanGuess(gword, mask, w, i, j + 1, used, plausible)
  ELSE IF mask[j] = Correct
  THEN [found |-> FALSE, used |-> used, plausible |-> plausible, panic |-> TRUE]
  ELSE IF mask[j] = Misplaced /\ j = i
  THEN ScanGuess(gword, mask, w, i, j + 1, used, FALSE)
  ELSE IF mask[j] = Misplaced
  THEN [found |-> TRUE, used |-> [used EXCEPT ![j] = TRUE],
        plausible |-> plausible, panic |-> FALSE]
  ELSE ScanGuess(gword, mask, w, i, j + 1, used, FALSE)

\* The second loop with its last branch returning false: a candidate letter
\* the prior guess says nothing about rejects the candidate.
RECURSIVE MatchesRest_NoInfoRejects(_, _, _, _, _)
MatchesRest_NoInfoRejects(gword, mask, word, i, used) ==
  IF i > WordLen THEN "true"
  ELSE IF mask[i] = Correct
  THEN MatchesRest_NoInfoRejects(gword, mask, word, i + 1, used)
  ELSE LET r == ScanGuess(gword, mask, word[i], i, 1, used, TRUE)
       IN IF r.panic THEN "panic"
          ELSE IF ~(r.found /\ r.plausible) THEN "false"
          ELSE MatchesRest_NoInfoRejects(gword, mask, word, i + 1, r.used)

\* The second loop of matches, over the positions i of the candidate that
\* the mask does not mark Correct.
RECURSIVE MatchesRest(_, _, _, _, _)
MatchesRest(gword, mask, word, i, used) ==
  IF i > WordLen THEN "true"
  ELSE IF mask[i] = Correct THEN MatchesRest(gword, mask, word, i + 1, used)
  ELSE LET r == ScanGuess(gword, mask, word[i], i, 1, used, TRUE)
       IN IF r.panic THEN "panic"
          ELSE IF ~r.plausible THEN "false"
          ELSE MatchesRest(gword, mask, word, i + 1, r.used)

\* Guess { word: gword, mask }.matches(word): "true", "false", or "panic"
\* when unreachable!() is executed.  The first loop returns false at a
\* Correct position where the letters differ and marks the others used.
MatchesOutcome(gword, mask, word) ==
  IF \E i \in Pos : mask[i] = Correct /\ gword[i] # word[i]
  THEN "false"
  ELSE MatchesRest(gword, mask, word, 1, [i \in Pos |-> mask[i] = Correct])

Matches(gword, mask, word) == MatchesOutcome(gword, mask, word) = "true"

---------------------------------------------------------------------------
(* The dictionary *)

\* DICTIONARY = include_str!("../data/library-counts.txt"): one line per
\* word, `word count`.  The data file is not part of the sources; the games
\* are played with the first DictSize lines of this list.
DictionaryLines ==
  << << <<"t","a","r","e","s">>, 5 >>,
     << <<"r","a","t","e","s">>, 3 >>,
     << <<"h","i","l","l","s">>, 4 >>,
     << <<"m","i","l","l","s">>, 2 >>,
     << <<"p","i","l","l","s">>, 3 >>,
     << <<"t","i","l","l","s">>, 1 >>,
     << <<"s","t","a","l","l">>, 2 >>,
     << <<"a","s","t","e","r">>, 1 >>,
     << <<"w","i","l","l","s">>, 2 >>,
     << <<"k","i","l","l","s">>, 1 >> >>

DICTIONARY == SubSeq(DictionaryLines, 1, DictSize)

\* Wordle::new(): the set of the words of the dictionary.
dictionary == {DICTIONARY[k][1] : k \in DOMAIN DICTIONARY}

\* VecRem::new(): the (word, count) pairs of the dictionary, in file order.
VecRemNew == DICTIONARY

\* The opening guess of VecRem, "tares".
Tares == <<"t","a","r","e","s">>

\* A five-letter word that is on no line of the dictionary.
OffList == <<"w","r","o","n","g">>

---------------------------------------------------------------------------
(* VecRem::guess *)

\* The filter applied to the whole dictionary instead of self.remaining.
Retain_FromDictionary(rem, history) ==
  IF history = <<>> THEN rem
  ELSE LET last == history[Len(history)]
       IN SelectSeq(VecRemNew, LAMBDA e : Matches(last.word, last.mask, e[1]))

\* remaining.retain(|(word, _)| last.matches(word)) for the last record of
\* the history; nothing is filtered while the history is empty.
Retain(rem, history) ==
  IF history = <<>> THEN rem
  ELSE LET last == history[Len(history)]
       IN SelectSeq(rem, LAMBDA e : Matches(last.word, last.mask, e[1]))

\* Whether a call of matches made by retain runs into unreachable!().
RetainPanics(rem, history) ==
  /\ history # <<>>
  /\ LET last == history[Len(history)]
     IN \E k \in DOMAIN rem :
          MatchesOutcome(last.word, last.mask, rem[k][1]) = "panic"

\* remaining.iter().map(|&(_, count)| count).sum()
RECURSIVE CountSum(_, _)
CountSum(rem, k) == IF k > Len(rem) THEN 0 ELSE rem[k][2] + CountSum(rem, k + 1)

remaining_count(rem) == CountSum(rem, 1)

\* in_pattern_total for the candidate guess `word` and the mask `pattern`:
\* the counts of the entries of remaining that g.matches() accepts.
RECURSIVE InPatternSum(_, _, _, _)
InPatternSum(rem, word, pattern, k) ==
  IF k > Len(rem) THEN 0
  ELSE (IF Matches(word, pattern, rem[k][1]) THEN rem[k][2] ELSE 0)
       + InPatternSum(rem, word, pattern, k + 1)

in_pattern_total(rem, word, pattern) == InPatternSum(rem, word, pattern, 1)

\* Whether the scoring loops run into unreachable!() inside matches.
ScoringPanics(rem) ==
  \E k \in DOMAIN rem : \E p \in DOMAIN Patterns : \E c \in DOMAIN rem :
    MatchesOutcome(rem[k][1], Patterns[p], rem[c][1]) = "panic"

\* log2(n) in units of 10^-5, rounded to the nearest unit, for the totals
\* the dictionary can produce.
Log2Fixed ==
  << 0, 100000, 158496, 200000, 232193, 258496, 280735, 300000, 316993,
     332193, 345943, 358496, 370044, 380735, 390689, 400000, 408746, 416993,
     424793, 432193, 439232, 445943, 452356, 458496, 464386, 470044, 475489,
     480735, 485798, 490689, 495420, 500000, 504439, 508746, 512928, 516993,
     520945, 524793, 528540, 532193 >>

\* The sum of f[lo] .. f[hi], by halving the range.
RECURSIVE SumRange(_, _, _)
SumRange(f, lo, hi) ==
  IF lo > hi THEN 0
  ELSE IF lo = hi THEN f[lo]
  ELSE LET mid == (lo + hi) \div 2
       IN SumRange(f, lo, mid) + SumRange(f, mid + 1, hi)

\* goodness = -sum over the patterns with a nonzero total b of
\* (b / T) * log2(b / T), where T is remaining_count.  With the logarithms
\* in fixed point, goodness * T * 10^5 is GoodnessFixed.num up to an error
\* of at most GoodnessFixed.err units (half a unit per logarithm used).
GoodnessFixed(rem, word) ==
  LET total == remaining_count(rem)
      b == [p \in DOMAIN Patterns |-> in_pattern_total(rem, word, Patterns[p])]
      term == [p \in DOMAIN Patterns |->
                 IF b[p] = 0 THEN 0
                 ELSE b[p] * (Log2Fixed[total] - Log2Fixed[b[p]])]
  IN [num |-> SumRange(term, 1, Len(Patterns)),
      err |-> SumRange(b, 1, Len(Patterns))]

\* The entries of remaining that the scan `if goodness > c.goodness` can
\* leave in `best`: the f64 goodness is known to the model only up to the
\* error of the fixed-point logarithms, so an entry may be the best unless
\* another entry's goodness is larger by more than that error.
BestIndices(rem) ==
  LET good == [k \in DOMAIN rem |-> GoodnessFixed(rem, rem[k][1])]
  IN {k \in DOMAIN rem :
        \A k2 \in DOMAIN rem :
          good[k].num + good[k].err + good[k2].err >= good[k2].num}

\* VecRem::guess(history) on the state `rem`: the outcomes it can have, each
\* the remaining list it leaves, the word it returns and whether it panics
\* (best.unwrap() on an empty list, or unreachable!() in matches).
VecRemGuess(rem, history) ==
  LET kept == Retain(rem, history)
  IN IF RetainPanics(rem, history)
     THEN {[remaining |-> rem, word |-> <<>>, panic |-> TRUE]}
     ELSE IF history = <<>>
     THEN {[remaining |-> kept, word |-> Tares, panic |-> FALSE]}
     ELSE IF kept = <<>> \/ ScoringPanics(kept)
     THEN {[remaining |-> kept, word |-> <<>>, panic |-> TRUE]}
     ELSE {[remaining |-> kept, word |-> kept[k][1], panic |-> FALSE] :
             k \in BestIndices(kept)}

---------------------------------------------------------------------------
(* The guessers of the game tests *)

\* guesser!(|history| { if history.len() == at { return hit } other })
ScriptedGuess(g, history) == IF Len(history) = g.at THEN g.hit ELSE g.other

\* Guesser::guess for the guesser g whose VecRem state is rem.
Guess(g, rem, history) ==
  IF g.kind = "VecRem" THEN VecRemGuess(rem, history)
  ELSE {[remaining |-> rem, word |-> ScriptedGuess(g, history), panic |-> FALSE]}

---------------------------------------------------------------------------
(* Wordle::play *)

VARIABLES
  answer,     \* the answer play is called with
  guesser,    \* the guesser play is called with
  remaining,  \* VecRem.remaining
  history,    \* the history vector of play
  round,      \* the loop variable of play
  pc,         \* "loop", "returned" or "panicked"
  result,     \* the Option<usize> play returned
  calls,      \* the number of calls of guesser.guess made so far
  guesses,    \* the words guesser.guess returned, in order
  fg, fw, fm, fmatched, fmask  \* inputs and results of the pure functions

gamevars == <<answer, guesser, remaining, history, round, pc, result, calls, guesses>>
fnvars == <<fg, fw, fm, fmatched, fmask>>
vars == <<gamevars, fnvars>>

NoMask == <<>>

Pending == [tag |-> "Pending", round |-> 0]
None == [tag |-> "None", round |-> 0]
Some(r) == [tag |-> "Some", round |-> r]

\* The answers the games are played for: every dictionary word and one word
\* that is not in the dictionary.
Answers == dictionary \cup {OffList}

\* The words a scripted guesser returns.
ScriptWords == {Tares, DICTIONARY[3][1], OffList}

Guessers ==
  {[kind |-> "VecRem"]}
  \cup [kind : {"Scripted"}, at : 0..MaxRounds, hit : ScriptWords, other : ScriptWords]

FnIdle ==
  /\ fg = Tares
  /\ fw = Tares
  /\ fm = NoMask
  /\ fmatched = "none"
  /\ fmask = NoMask

Init ==
  /\ answer \in Answers
  /\ guesser \in Guessers
  /\ remaining = IF guesser.kind = "VecRem" THEN VecRemNew ELSE <<>>
  /\ history = <<>>
  /\ round = 1
  /\ pc = "loop"
  /\ result = Pending
  /\ calls = 0
  /\ guesses = <<>>
  /\ FnIdle

\* One iteration of the loop in which the guess equals the answer:
\* return Some(round).
PlayWon ==
  /\ pc = "loop"
  /\ \E out \in Guess(guesser, remaining, history) :
       /\ ~out.panic
       /\ out.word = answer
       /\ remaining' = out.remaining
       /\ guesses' = Append(guesses, out.word)
  /\ calls' = calls + 1
  /\ pc' = "returned"
  /\ result' = Some(round)
  /\ UNCHANGED <<answer, guesser, history, round, fnvars>>

\* One iteration of the loop that panics: inside the guesser, or in
\* assert!(self.dictionary.contains(guess)) after the comparison with the
\* answer.
PlayPanic ==
  /\ pc = "loop"
  /\ \E out \in Guess(guesser, remaining, history) :
       /\ \/ out.panic
          \/ out.word # answer /\ out.word \notin dictionary
       /\ remaining' = out.remaining
       /\ guesses' = IF out.panic THEN guesses ELSE Append(guesses, out.word)
  /\ calls' = calls + 1
  /\ pc' = "panicked"
  /\ UNCHANGED <<answer, guesser, history, round, result, fnvars>>

\* The loop written `for round in 1..32`: it ends after round 31.
PlayPush_OffByOne ==
  /\ pc = "loop"
  /\ \E out \in Guess(guesser, remaining, history) :
       /\ ~out.panic
       /\ out.word # answer
       /\ out.word \in dictionary
       /\ remaining' = out.remaining
       /\ guesses' = Append(guesses, out.word)
       /\ history' = Append(history, [word |-> out.word,
                                      mask |-> Compute(answer, out.word)])
  /\ calls' = calls + 1
  /\ IF round = MaxRounds - 1
     THEN pc' = "returned" /\ result' = None /\ round' = round
     ELSE pc' = "loop" /\ result' = result /\ round' = round + 1
  /\ UNCHANGED <<answer, guesser, fnvars>>

\* The mask computed with the arguments exchanged: compute(guess, answer).
PlayPush_SwappedMask ==
  /\ pc = "loop"
  /\ \E out \in Guess(guesser, remaining, history) :
       /\ ~out.panic
       /\ out.word # answer
       /\ out.word \in dictionary
       /\ remaining' = out.remaining
       /\ guesses' = Append(guesses, out.word)
       /\ history' = Append(history, [word |-> out.word,
                                      mask |-> Compute(out.word, answer)])
  /\ calls' = calls + 1
  /\ IF round = MaxRounds
     THEN pc' = "returned" /\ result' = None /\ round' = round
     ELSE pc' = "loop" /\ result' = result /\ round' = round + 1
  /\ UNCHANGED <<answer, guesser, fnvars>>

\* One iteration of the loop that neither wins nor panics: the guess and its
\* mask are pushed on the history; after round 32 the loop ends and play
\* returns None.
PlayPush ==
  /\ pc = "loop"
  /\ \E out \in Guess(guesser, remaining, history) :
       /\ ~out.panic
       /\ out.word # answer
       /\ out.word \in dictionary
       /\ remaining' = out.remaining
       /\ guesses' = Append(guesses, out.word)
       /\ history' = Append(history, [word |-> out.word,
                                      mask |-> Compute(answer, out.word)])
  /\ calls' = calls + 1
  /\ IF round = MaxRounds
     THEN pc' = "returned" /\ result' = None /\ round' = round
     ELSE pc' = "loop" /\ result' = result /\ round' = round + 1
  /\ UNCHANGED <<answer, guesser, fnvars>>

Next == PlayWon \/ PlayPanic \/ PlayPush

Spec == Init /\ [][Next]_vars

---------------------------------------------------------------------------
(* The pure functions applied to arbitrary inputs *)

LetterSeq == <<"a", "b", "c", "d", "e", "f">>
Alphabet == {LetterSeq[i] : i \in 1..NumLetters}
Words == [Pos -> Alphabet]

GameIdle ==
  /\ answer = Tares
  /\ guesser = [kind |-> "None"]
  /\ remaining = <<>>
  /\ history = <<>>
  /\ round = 1
  /\ pc = "idle"
  /\ result = Pending
  /\ calls = 0
  /\ guesses = <<>>

\* compute and matches only compare letters for equality, so the prior
\* guess is taken to begin with the first letter of the alphabet.
FnInit ==
  /\ fg \in {w \in Words : w[1] = LetterSeq[1]}
  /\ fw \in Words
  /\ fm = NoMask
  /\ fmatched = "none"
  /\ fmask = NoMask
  /\ GameIdle

\* Guess { word: fg, mask: m }.matches(fw) and Correctness::compute(fw, fg).
Apply ==
  /\ fm = NoMask
  /\ \E m \in PatternSet :
       /\ fm' = m
       /\ fmatched' = MatchesOutcome(fg, m, fw)
       /\ fmask' = Compute(fw, fg)
  /\ UNCHANGED <<fg, fw, gamevars>>

FnNext == Apply

SpecFn == FnInit /\ [][FnNext]_vars

---------------------------------------------------------------------------
(* Properties of the pure functions, checked under SpecFn *)

\* C1: for every prior guess g, mask m and candidate c, matches(g, m, c)
\* returns true exactly when compute(c, g) = m.
C1_MatchesIffCompute ==
  fm # NoMask => ((fmatched = "true") <=> (fmask = fm))

\* The number of positions before i where the guess has the letter of
\* position i and the answer has another letter.
NonCorrectBefore(ans, guess, i) ==
  Cardinality({j \in 1..(i - 1) : guess[j] = guess[i] /\ guess[j] # ans[j]})

\* The number of positions where the answer has the letter x and the guess
\* has another letter: the occurrences of x the first pass leaves unconsumed.
Unconsumed(ans, guess, x) ==
  Cardinality({j \in Pos : ans[j] = x /\ guess[j] # x})

\* The mask of the two-pass rule in closed form: Correct where the letters
\* are equal; elsewhere Misplaced for as many occurrences of a letter, from
\* the left, as the answer has unconsumed occurrences of it, and Wrong for
\* the rest.
TwoPassReference(ans, guess) ==
  [i \in Pos |->
     IF guess[i] = ans[i] THEN Correct
     ELSE IF NonCorrectBefore(ans, guess, i) < Unconsumed(ans, guess, guess[i])
     THEN Misplaced
     ELSE Wrong]

\* C2: compute(answer, guess) is the mask of the two-pass rule, so for each
\* letter the Correct and Misplaced marks on it are no more than its
\* occurrences in the answer (here the answer is fw and the guess is fg).
C2_ComputeIsTwoPass ==
  fmask # NoMask =>
    /\ fmask = TwoPassReference(fw, fg)
    /\ \A x \in Alphabet :
         Cardinality({i \in Pos : fg[i] = x /\ fmask[i] # Wrong})
           <= Cardinality({j \in Pos : fw[j] = x})

\* A computed mask with a Correct mark, and a letter that is Misplaced at
\* one position and Wrong at a later one.
C2_Witness ==
  /\ fmask # NoMask
  /\ \E k \in Pos : fmask[k] = Correct
  /\ \E i, j \in Pos :
       i < j /\ fg[i] = fg[j] /\ fmask[i] = Misplaced /\ fmask[j] = Wrong

\* C8: when matches(g, m, c) is true and m[i] is Misplaced, c has another
\* letter than g[i] at position i and has g[i] at another position, and c
\* has at least as many copies of each letter as g has Correct and
\* Misplaced marks on it.
C8_MisplacedLetterPresent ==
  fmatched = "true" =>
    /\ \A i \in Pos :
         fm[i] = Misplaced =>
           /\ fw[i] # fg[i]
           /\ \E k \in Pos \ {i} : fw[k] = fg[i]
    /\ \A x \in Alphabet :
         Cardinality({i \in Pos : fg[i] = x /\ fm[i] # Wrong})
           <= Cardinality({j \in Pos : fw[j] = x})

---------------------------------------------------------------------------
(* Properties of the games, checked under Spec *)

RemWords == {remaining[k][1] : k \in DOMAIN remaining}

IsVecRem == guesser.kind = "VecRem"

\* C3: playing with a fresh VecRem for an answer of the dictionary, the
\* answer is in remaining after every call of guess, and guess never
\* unwraps an empty best.
C3_AnswerRemains ==
  (IsVecRem /\ answer \in dictionary) =>
    /\ answer \in RemWords
    /\ pc # "panicked"

\* A VecRem game for a dictionary answer in which two filters have run and
\* have discarded words.
C3_Witness ==
  /\ IsVecRem
  /\ answer \in dictionary
  /\ calls >= 3
  /\ Len(remaining) < Len(DICTIONARY)
  /\ answer \in RemWords

\* C4: play returns Some(r) exactly when round r is the first whose guess
\* equals the answer, after r calls of the guesser; it returns None after
\* exactly 32 calls when none of the 32 guesses equals the answer.
C4_PlayResult ==
  /\ calls <= MaxRounds
  /\ pc = "loop" => result = Pending
  /\ pc = "returned" => result.tag \in {"Some", "None"}
  /\ result.tag = "Some" =>
       /\ result.round \in 1..MaxRounds
       /\ calls = result.round
       /\ Len(guesses) = calls
       /\ guesses[calls] = answer
       /\ \A j \in 1..(calls - 1) : guesses[j] # answer
  /\ result.tag = "None" =>
       /\ calls = MaxRounds
       /\ Len(guesses) = MaxRounds
       /\ \A j \in 1..MaxRounds : guesses[j] # answer
  /\ (\E j \in DOMAIN guesses : guesses[j] = answer) =>
       pc = "returned" /\ result.tag = "Some"
  /\ (Len(guesses) = MaxRounds /\ pc # "panicked"
        /\ \A j \in DOMAIN guesses : guesses[j] # answer) =>
       pc = "returned" /\ result = None

\* play has returned Some(32): the answer was the guess of the last round.
C4_Witness ==
  /\ pc = "returned"
  /\ result = Some(MaxRounds)
  /\ calls = MaxRounds

\* C5: play never returns (Some or None) from a game in which the guesser
\* produced a word that is not in the dictionary, the answer included.
C5_NoReturnAfterOffList ==
  pc = "returned" => \A j \in DOMAIN guesses : guesses[j] \in dictionary

\* The sum of the counts of the entries of rem, from the k-th on, for which
\* compute(entry, word) is the pattern.
RECURSIVE ComputeBucket(_, _, _, _)
ComputeBucket(rem, word, pattern, k) ==
  IF k > Len(rem) THEN 0
  ELSE (IF Compute(rem[k][1], word) = pattern THEN rem[k][2] ELSE 0)
       + ComputeBucket(rem, word, pattern, k + 1)

\* C6: from round 2 on, in_pattern_total for (w, m) is the sum of the counts
\* of the entries c of remaining with compute(c, w) = m, so the totals of
\* the 243 masks add up to remaining_count.
C6_BucketsPartition ==
  (IsVecRem /\ calls >= 2 /\ pc # "panicked") =>
    \A k \in DOMAIN remaining :
      /\ \A p \in DOMAIN Patterns :
           in_pattern_total(remaining, remaining[k][1], Patterns[p])
             = ComputeBucket(remaining, remaining[k][1], Patterns[p], 1)
      /\ GoodnessFixed(remaining, remaining[k][1]).err = remaining_count(remaining)

\* The state part of C7.
C7_HistoryRecords ==
  /\ Len(history) \in {calls - 1, calls} \cap Nat
  /\ pc = "loop" => Len(history) = calls
  /\ \A j \in DOMAIN history :
       history[j] = [word |-> guesses[j], mask |-> Compute(answer, guesses[j])]

\* The step part of C7: a step keeps the records and adds at most one.
C7_HistoryStep ==
  /\ Len(history') \in {Len(history), Len(history) + 1}
  /\ SubSeq(history', 1, Len(history)) = history

\* C7: the history is append-only and grows by one record per round that
\* does not win: at the k-th call of the guesser it holds k-1 records, the
\* j-th being the j-th guess with compute(answer, that guess), and a record
\* once pushed is never changed or removed.
C7_HistoryAppendOnly == []C7_HistoryRecords /\ [][C7_HistoryStep]_vars

\* The guesser is about to be called a fourth time, with three records.
C7_Witness ==
  /\ pc = "loop"
  /\ calls = 3
  /\ Len(history) = 3

\* C9: playing with a fresh VecRem, after the call of guess in round k every
\* word of remaining matches each of the k-1 records the history held at
\* that call, not only the last one.
C9_ConsistentWithAllRecords ==
  IsVecRem =>
    \A k \in DOMAIN remaining :
      \A j \in DOMAIN history :
        j <= calls - 1 =>
          Matches(history[j].word, history[j].mask, remaining[k][1])

\* A VecRem game after the call of round 3 or later: two or more records
\* have been filtered on and words remain.
C9_Witness ==
  /\ IsVecRem
  /\ calls >= 3
  /\ Len(history) >= 2
  /\ Len(remaining) >= 2

\* The state part of C10.
C10_GuessRemoved ==
  /\ \A j \in DOMAIN history :
       ~Matches(history[j].word, history[j].mask, history[j].word)
  /\ IsVecRem =>
       /\ \A j \in DOMAIN history : j <= calls - 1 => history[j].word \notin RemWords
       /\ \A i, j \in DOMAIN guesses : i # j => guesses[i] # guesses[j]

\* The step part of C10: the call of guess in round 3 or later leaves
\* remaining shorter than it was.
C10_Shrinks ==
  (IsVecRem /\ calls' = calls + 1 /\ calls' >= 3) =>
    Len(remaining') < Len(remaining)

\* C10: a guess that did not win does not match its own record, so the next
\* filter of VecRem removes it from remaining: VecRem never returns a word
\* twice in a game and remaining shrinks in every round after the second.
C10_NoRepeatedGuess == []C10_GuessRemoved /\ [][C10_Shrinks]_vars

\* A VecRem game in which guess has been called four times.
C10_Witness ==
  /\ IsVecRem
  /\ calls >= 4
  /\ Len(guesses) = calls

=============================================================================
